---- MODULE Spec2Model ----
(***************************************************************************)
(* TouchControls.js: the virtual gamepad overlay of Escape! BAU BAU!.      *)
(*                                                                         *)
(* The model follows the script top to bottom: the capability gate, the    *)
(* preference read, init() (buildControls, addBaseStyles,                  *)
(* setupEventListeners, updateControlVisibility, calculateAndApplyLayout)  *)
(* and then one action per event the registered listeners handle.         *)
(*                                                                         *)
(* Conventions                                                             *)
(*  - null / undefined are the string Null.                                *)
(*  - CSS lengths are exact fixed-point numbers, Px units to the pixel;    *)
(*    decimal literals of the source are pairs <<numerator, denominator>>. *)
(*  - A joystick contact point is given in polar form about the centre of  *)
(*    the joystick base: the angle Math.atan2 returns, taken on a grid of  *)
(*    0.001 rad (785 is the angle 0.785 exactly, a value Math.atan2 does   *)
(*    return), and the raw distance Math.sqrt returns, in Px units.        *)
(***************************************************************************)
EXTENDS Integers, Sequences, FiniteSets, TLC

\* ---------------------------------------------------------------- bounds
MaxTouches == 2

\* The number of elements another script takes out of the overlay.
MaxRemoved == 1

\* ------------------------------------------------------------- constants
Null == "null"

\* null, where a contact identifier is expected (identifiers start at 1 here).
NullId == 0

Px == 10 ^ 5

CONFIG_Tripled == [scale |-> <<30, 10>>, paddingPercent |-> 4, gapPercent |-> 3]
CONFIG == [scale |-> <<10, 10>>, paddingPercent |-> 4, gapPercent |-> 3]

KEY_MAPPINGS ==
    [ touch_id \in { "touch-z", "touch-x", "touch-c", "touch-v", "touch-m", "touch-q",
                     "touch-esc", "touch-up", "touch-down", "touch-left", "touch-right" } |->
        CASE touch_id = "touch-z"     -> [key |-> "z", keyCode |-> 90, code |-> "KeyZ"]
          [] touch_id = "touch-x"     -> [key |-> "x", keyCode |-> 88, code |-> "KeyX"]
          [] touch_id = "touch-c"     -> [key |-> "c", keyCode |-> 67, code |-> "KeyC"]
          [] touch_id = "touch-v"     -> [key |-> "v", keyCode |-> 86, code |-> "KeyV"]
          [] touch_id = "touch-m"     -> [key |-> "m", keyCode |-> 77, code |-> "KeyM"]
          [] touch_id = "touch-q"     -> [key |-> "q", keyCode |-> 81, code |-> "KeyQ"]
          [] touch_id = "touch-esc"   -> [key |-> "Escape", keyCode |-> 27, code |-> "Escape"]
          [] touch_id = "touch-up"    -> [key |-> "ArrowUp", keyCode |-> 38, code |-> "ArrowUp"]
          [] touch_id = "touch-down"  -> [key |-> "ArrowDown", keyCode |-> 40, code |-> "ArrowDown"]
          [] touch_id = "touch-left"  -> [key |-> "ArrowLeft", keyCode |-> 37, code |-> "ArrowLeft"]
          [] touch_id = "touch-right" -> [key |-> "ArrowRight", keyCode |-> 39, code |-> "ArrowRight"] ]

\* undefined, where a mapping is expected.
NoMapping == [key |-> Null, keyCode |-> 0, code |-> Null]

\* KEY_MAPPINGS[id]: undefined when the table has no such property.
Mapping_FirstKey(id) == KEY_MAPPINGS["touch-z"]
Mapping(id) == IF id \in DOMAIN KEY_MAPPINGS THEN KEY_MAPPINGS[id] ELSE NoMapping

joystickDeadzone == <<20, 100>>

\* The thresholds of the direction ladder, in milliradians.
LeftAngle == 2356
RightAngle == 785

\* -------------------------------------------------------- the element tree
ActionButtons == {"touch-q", "touch-z", "touch-x", "touch-m", "touch-c", "touch-v"}
SystemButtons == {"touch-esc"}
DpadButtons == {"touch-up", "touch-down", "touch-left", "touch-right"}

\* The nodes container.innerHTML creates, with the container itself.
Elements ==
    {"virtual-controls-container", "action-cluster", "dpad-container",
     "joystick-container", "joystick-base", "joystick-thumb", "control-toggle-button"}
    \cup ActionButtons \cup SystemButtons \cup DpadButtons

Parent(el) ==
    CASE el \in ActionButtons      -> "action-cluster"
      [] el \in DpadButtons        -> "dpad-container"
      [] el = "joystick-thumb"     -> "joystick-base"
      [] el = "joystick-base"      -> "joystick-container"
      [] el = "virtual-controls-container" -> "body"
      [] OTHER                     -> "virtual-controls-container"

\* class="virtual-button" in the markup.
VirtualButtons ==
    ActionButtons \cup SystemButtons \cup DpadButtons \cup {"joystick-base", "control-toggle-button"}

RECURSIVE closest(_)
\* el.closest('.virtual-button'): the nearest inclusive ancestor with the class.
closest(el) ==
    IF el \in VirtualButtons THEN el
    ELSE IF el \notin Elements THEN Null
    ELSE closest(Parent(el))

\* The class test both container listeners make on the button they found.
IsDiscrete_ActionOnly(button) == button \in ActionButtons
IsDiscrete(button) ==
    button \in ActionButtons \/ button \in DpadButtons \/ button \in SystemButtons

RECURSIVE Displayed(_, _)
\* .hidden { display: none !important; }: an element has a box unless it or an
\* ancestor carries the class.
Displayed(el, hid) ==
    IF el \notin Elements THEN TRUE
    ELSE el \notin hid /\ Displayed(Parent(el), hid)

\* pointer-events: none on the container and the clusters, auto on every
\* .virtual-button (inherited by the thumb inside the base).
HitTargets == VirtualButtons \cup {"joystick-thumb"}

\* ------------------------------------------------------ fixed-point helpers
Min_Larger(a, b) == IF a < b THEN b ELSE a
Min(a, b) == IF a < b THEN a ELSE b
Abs(a) == IF a < 0 THEN -a ELSE a

\* x * q for a decimal q = <<n, d>>; exact on every value the layout produces.
Mul(x, q) == IF x % q[2] = 0 THEN (x \div q[2]) * q[1] ELSE (x * q[1]) \div q[2]

\* ------------------------------------------------------------ section 1, 2
\* const isTouchDevice = ('ontouchstart' in window) || (navigator.maxTouchPoints > 0)
isTouchDevice_AnyPoints(hasOnTouchStart, touchPoints) == hasOnTouchStart \/ touchPoints >= 0
isTouchDevice(hasOnTouchStart, touchPoints) == hasOnTouchStart \/ touchPoints > 0

\* localStorage.getItem('controlMode') === 'joystick'
load_NotDpad(value) == value # "dpad"
load(value) == value = "joystick"

\* isJoystickMode ? 'joystick' : 'dpad'
save(mode) == IF mode THEN "joystick" ELSE "dpad"

\* ---------------------------------------------------------------- section 3
\* buildControls(): the container and its innerHTML are appended to the body.
buildControls(tr) == tr \cup Elements

\* addBaseStyles(): one <style> element is appended to the head.
addBaseStyles(sheets) == sheets + 1

\* ---------------------------------------------------------------- section 4
\* The elements a layout pass assigns geometry to.
Styled_NoJoystick ==
    {"action-cluster", "touch-esc", "dpad-container",
     "joystick-base", "joystick-thumb", "control-toggle-button"}
    \cup ActionButtons \cup DpadButtons
Styled ==
    {"action-cluster", "touch-esc", "dpad-container", "joystick-container",
     "joystick-base", "joystick-thumb", "control-toggle-button"}
    \cup ActionButtons \cup DpadButtons

NoStyle == [property \in {} |-> 0]

\* isLandscape ? 1.4 : 1.0
sizeMultiplier_Half(isLandscape) == IF isLandscape THEN <<15, 10>> ELSE <<10, 10>>
sizeMultiplier(isLandscape) == IF isLandscape THEN <<14, 10>> ELSE <<10, 10>>

\* The style objects of one pass, per element id, from the viewport alone.
LayoutFor(screenW, screenH) ==
    LET isLandscape == screenW > screenH
        shortSide == Min(screenW, screenH) * Px
        scale == <<CONFIG.scale[1] * sizeMultiplier(isLandscape)[1],
                   CONFIG.scale[2] * sizeMultiplier(isLandscape)[2]>>
        padding == Mul(shortSide, <<CONFIG.paddingPercent, 100>>)
        gap == Mul(shortSide, <<CONFIG.gapPercent, 100>>)
        actionButtonSize == Mul(Mul(shortSide, <<11, 100>>), scale)
        movementClusterSize == Mul(Mul(shortSide, <<38, 100>>), scale)
        clusterWidth == (actionButtonSize * 3) + (gap * 2)
        clusterHeight == (actionButtonSize * 2) + gap
        actionBtnStyle == [width |-> actionButtonSize, height |-> actionButtonSize,
                           position |-> "absolute",
                           fontSize |-> Mul(actionButtonSize, <<45, 100>>)]
        escButtonSize == Mul(Mul(shortSide, <<10, 100>>), scale)
        dpadButtonSize == Mul(movementClusterSize, <<10, 32>>)
        joystickBaseSize == Mul(movementClusterSize, <<8, 10>>)
        toggleButtonW == Mul(Mul(shortSide, <<22, 100>>), scale)
        toggleButtonH == Mul(Mul(shortSide, <<7, 100>>), scale)
        toggleBottom == padding + movementClusterSize + gap
        toggleLeft == padding + (movementClusterSize \div 2) - (toggleButtonW \div 2)
        movementStyle == [width |-> movementClusterSize, height |-> movementClusterSize,
                          bottom |-> padding, left |-> padding]
    IN  [ id \in Styled |->
            CASE id = "action-cluster" ->
                   [bottom |-> padding, right |-> padding,
                    width |-> clusterWidth, height |-> clusterHeight]
              [] id = "touch-q" -> [top |-> 0, left |-> 0] @@ actionBtnStyle
              [] id = "touch-z" -> [top |-> 0, left |-> actionButtonSize + gap] @@ actionBtnStyle
              [] id = "touch-x" -> [top |-> 0, right |-> 0] @@ actionBtnStyle
              [] id = "touch-m" -> [bottom |-> 0, left |-> 0] @@ actionBtnStyle
              [] id = "touch-c" -> [bottom |-> 0, left |-> actionButtonSize + gap] @@ actionBtnStyle
              [] id = "touch-v" -> [bottom |-> 0, right |-> 0] @@ actionBtnStyle
              [] id = "touch-esc" ->
                   [width |-> escButtonSize, height |-> escButtonSize,
                    top |-> padding, right |-> padding,
                    fontSize |-> Mul(escButtonSize, <<4, 10>>)]
              [] id \in {"dpad-container", "joystick-container"} -> movementStyle
              [] id \in DpadButtons -> [width |-> dpadButtonSize, height |-> dpadButtonSize]
              [] id = "joystick-base" -> [width |-> joystickBaseSize, height |-> joystickBaseSize]
              [] id = "joystick-thumb" ->
                   [width |-> joystickBaseSize \div 2, height |-> joystickBaseSize \div 2]
              [] id = "control-toggle-button" ->
                   [width |-> toggleButtonW, height |-> toggleButtonH,
                    bottom |-> toggleBottom, left |-> toggleLeft,
                    borderRadius |-> toggleButtonH \div 4,
                    fontSize |-> Mul(toggleButtonH, <<45, 100>>)] ]

\* calculateAndApplyLayout(): applyStyle and the .dpad-button loop skip an
\* element that is not in the tree; Object.assign overrides the properties it
\* names and keeps the others.
calculateAndApplyLayout_Abort(screenW, screenH, tr, old) ==
    LET assigned == LayoutFor(screenW, screenH)
    IN  IF Styled \subseteq tr
          THEN [ id \in (DOMAIN old) \cup Styled |->
                   assigned[id] @@ (IF id \in DOMAIN old THEN old[id] ELSE NoStyle) ]
          ELSE old
calculateAndApplyLayout_KeepOld(screenW, screenH, tr, old) ==
    LET assigned == LayoutFor(screenW, screenH)
        found == Styled \cap tr
    IN  [ id \in (DOMAIN old) \cup found |->
            IF id \in found
              THEN (IF id \in DOMAIN old THEN old[id] ELSE NoStyle) @@ assigned[id]
              ELSE old[id] ]
calculateAndApplyLayout_Stale(screenW, screenH, tr, old) ==
    LET assigned == LayoutFor(screenW, screenH)
        turned == LayoutFor(screenH, screenW)
        found == Styled \cap tr
    IN  [ id \in (DOMAIN old) \cup found |->
            IF id \in found
              THEN IF id \in DOMAIN old THEN turned[id] @@ old[id] ELSE assigned[id]
              ELSE old[id] ]
calculateAndApplyLayout(screenW, screenH, tr, old) ==
    LET assigned == LayoutFor(screenW, screenH)
        found == Styled \cap tr
    IN  [ id \in (DOMAIN old) \cup found |->
            IF id \in found
              THEN assigned[id] @@ (IF id \in DOMAIN old THEN old[id] ELSE NoStyle)
              ELSE old[id] ]

\* The box of an element, in viewport coordinates (x to the right, y down):
\* position absolute or fixed puts the offsets the style names against the
\* edges of the containing block cb, width and height give the other edges.
Box(st, cb) ==
    LET has(property) == property \in DOMAIN st
        left == IF has("left") THEN cb.left + st.left ELSE cb.right - st.right - st.width
        top == IF has("top") THEN cb.top + st.top ELSE cb.bottom - st.bottom - st.height
    IN  [left |-> left, top |-> top, right |-> left + st.width, bottom |-> top + st.height]

\* #virtual-controls-container: position fixed, top 0, left 0, width and
\* height 100%, the viewport.
ContainerBox(screenW, screenH) ==
    [left |-> 0, top |-> 0, right |-> screenW * Px, bottom |-> screenH * Px]

\* The box of a positioned element under the styles st: the action buttons
\* are placed in the action cluster, the rest in the container.
BoxOf(id, st, screenW, screenH) ==
    IF id \in ActionButtons
      THEN Box(st[id], Box(st["action-cluster"], ContainerBox(screenW, screenH)))
      ELSE Box(st[id], ContainerBox(screenW, screenH))

\* ---------------------------------------------------------------- section 5
\* simulateKeyEvent(type, mapping): the events it dispatches, as a sequence.
\* The target is looked up on every call; only the canvas has a focus method.
simulateKeyEvent_Document(type, mapping, hasCanvas) ==
    IF mapping = NoMapping THEN <<>>
    ELSE << [type |-> type, key |-> mapping.key, code |-> mapping.code,
             keyCode |-> mapping.keyCode, which |-> mapping.keyCode,
             target |-> "document", focused |-> FALSE] >>
simulateKeyEvent_Unchecked(type, mapping, hasCanvas) ==
    << [type |-> type, key |-> mapping.key, code |-> mapping.code,
        keyCode |-> mapping.keyCode, which |-> mapping.keyCode,
        target |-> IF hasCanvas THEN "canvas" ELSE "document",
        focused |-> hasCanvas] >>
simulateKeyEvent_DownOnly(type, mapping, hasCanvas) ==
    IF mapping = NoMapping \/ type = "keyup" THEN <<>>
    ELSE << [type |-> type, key |-> mapping.key, code |-> mapping.code,
             keyCode |-> mapping.keyCode, which |-> mapping.keyCode,
             target |-> IF hasCanvas THEN "canvas" ELSE "document",
             focused |-> hasCanvas] >>
simulateKeyEvent(type, mapping, hasCanvas) ==
    IF mapping = NoMapping THEN <<>>
    ELSE << [type |-> type, key |-> mapping.key, code |-> mapping.code,
             keyCode |-> mapping.keyCode, which |-> mapping.keyCode,
             target |-> IF hasCanvas THEN "canvas" ELSE "document",
             focused |-> hasCanvas] >>

\* The keys of the table.
KeyNames == {KEY_MAPPINGS[id].key : id \in DOMAIN KEY_MAPPINGS}

RECURSIVE Tally(_, _)
\* target.dispatchEvent(event), counted per key: a key-down adds one, a key-up
\* takes one off.
Tally(count, events) ==
    IF events = <<>> THEN count
    ELSE Tally([count EXCEPT ![Head(events).key] =
                   IF Head(events).type = "keydown" THEN @ + 1 ELSE @ - 1],
               Tail(events))

RECURSIVE LastDown(_, _)
\* target.dispatchEvent(event), remembered per key: the keys whose last event
\* is a key-down.
LastDown(keys, events) ==
    IF events = <<>> THEN keys
    ELSE LastDown(IF Head(events).type = "keydown"
                    THEN keys \cup {Head(events).key}
                    ELSE keys \ {Head(events).key},
                  Tail(events))

\* document.querySelectorAll('.virtual-button.active').forEach(b =>
\* b.classList.remove('active')): the class leaves every button that has it.
deactivateAll_ActionOnly(act) == act \ ActionButtons
deactivateAll(act) == act \ VirtualButtons

\* joystickBase.getBoundingClientRect().width: no box, no size.
RectWidth(el, hid, st) ==
    IF Displayed(el, hid) /\ el \in DOMAIN st THEN st[el].width ELSE 0

\* distance > rect.width / 2 * joystickDeadzone
exceedsDeadzone_Inclusive(distance, halfWidth) ==
    distance * joystickDeadzone[2] >= halfWidth * joystickDeadzone[1]
exceedsDeadzone(distance, halfWidth) ==
    distance * joystickDeadzone[2] > halfWidth * joystickDeadzone[1]

\* The four-way ladder of handleJoystickMove, first matching branch wins.
ladder_RightFirst(angle) ==
    LET absAngle == Abs(angle)
    IN  IF absAngle < LeftAngle THEN "right"
        ELSE IF absAngle > LeftAngle THEN "left"
        ELSE IF angle < -RightAngle THEN "up"
        ELSE IF angle > RightAngle THEN "down"
        ELSE Null
ladder(angle) ==
    LET absAngle == Abs(angle)
    IN  IF absAngle > LeftAngle THEN "left"
        ELSE IF absAngle < RightAngle THEN "right"
        ELSE IF angle < -RightAngle THEN "up"
        ELSE IF angle > RightAngle THEN "down"
        ELSE Null

\* let direction = null; if (distance > ...) { ladder }
resolveDirection(angle, distance, halfWidth) ==
    IF exceedsDeadzone(distance, halfWidth) THEN ladder(angle) ELSE Null

\* 'touch-' + direction
touchId_Bare(direction) == direction
touchId(direction) == "touch-" \o direction

\* The key events of a direction change, in the order the source emits them.
directionChange_DownFirst(previous, direction, hasCanvas) ==
    simulateKeyEvent("keydown", Mapping(touchId(direction)), hasCanvas)
    \o simulateKeyEvent("keyup", Mapping(touchId(previous)), hasCanvas)
directionChange_NoRelease(previous, direction, hasCanvas) ==
    simulateKeyEvent("keydown", Mapping(touchId(direction)), hasCanvas)
directionChange(previous, direction, hasCanvas) ==
    simulateKeyEvent("keyup", Mapping(touchId(previous)), hasCanvas)
    \o simulateKeyEvent("keydown", Mapping(touchId(direction)), hasCanvas)

\* handleJoystickMove(x, y) for the contact point p = [angle, distance]:
\* the new tracked direction, the key events emitted and the thumb transform.
handleJoystickMove_RawThumb(p, halfWidth, previous, hasCanvas) ==
    LET angle == p.angle
        distance == Min(halfWidth, p.distance)
        direction == resolveDirection(angle, distance, halfWidth)
    IN  [ direction |-> direction,
          events |-> IF direction # previous
                       THEN directionChange(previous, direction, hasCanvas)
                       ELSE <<>>,
          thumb |-> [angle |-> angle, distance |-> p.distance] ]
handleJoystickMove(p, halfWidth, previous, hasCanvas) ==
    LET angle == p.angle
        distance == Min(halfWidth, p.distance)
        direction == resolveDirection(angle, distance, halfWidth)
    IN  [ direction |-> direction,
          events |-> IF direction # previous
                       THEN directionChange(previous, direction, hasCanvas)
                       ELSE <<>>,
          thumb |-> [angle |-> angle, distance |-> distance] ]

\* ---------------------------------------------------------------- section 6
\* updateControlVisibility(): classList.toggle('hidden', force) on both
\* clusters, then the label of the toggle button.
updateControlVisibility_hidden(hid, mode) ==
    ((hid \ {"dpad-container", "joystick-container"})
        \cup (IF mode THEN {"dpad-container"} ELSE {}))
        \cup (IF ~mode THEN {"joystick-container"} ELSE {})

updateControlVisibility_label_Same(mode) == IF mode THEN "Use Joystick" ELSE "Use D-Pad"
updateControlVisibility_label(mode) == IF mode THEN "Use D-Pad" ELSE "Use Joystick"

\* ------------------------------------------------------------------- state
VARIABLES
    \* the host page
    ontouchstart,       \* 'ontouchstart' in window
    maxTouchPoints,     \* navigator.maxTouchPoints
    readyState,         \* document.readyState
    storageAccess,      \* "available", "full" (setItem throws) or "denied" (any access throws)
    localStorage,       \* the stored value of the key 'controlMode', Null when there is none
    canvas,             \* document.querySelector('canvas') finds an element
    innerWidth,         \* window.innerWidth, in pixels
    innerHeight,        \* window.innerHeight, in pixels
    touches,            \* contact identifier -> the element the contact started on, or Null
    \* the script
    pc,                 \* "start", "gated", "aborted", "waiting", "ready"
    isJoystickMode,
    currentJoystickDirection,
    activeJoystickTouchId,
    \* the document as the script changes it
    tree,               \* ids of the overlay elements in the document
    styleSheets,        \* number of <style> elements the script appended
    listeners,          \* <<target, event type>> pairs with a listener of the script
    hidden,             \* elements carrying the class 'hidden'
    active,             \* elements carrying the class 'active'
    label,              \* textContent of the toggle button
    thumb,              \* transform of the joystick thumb
    style,              \* element id -> inline style the layout assigned
    \* what an observer of the page sees
    storageCalls,       \* the localStorage methods the script has called
    uncaught,           \* an exception has escaped the script or one of its listeners
    emitted,            \* the key events dispatched by the last step, in order
    sample,             \* <<the contact point the last step gave handleJoystickMove>>, or <<>>
    beforeToggle,       \* <<scheme and visibility just before the last toggle>>, or <<>>
    held,               \* key -> key-downs less key-ups dispatched so far
    lastDown,           \* the keys whose last dispatched event is a key-down
    joystickHeld        \* key -> key-downs less key-ups the joystick logic dispatched

vars ==
    << ontouchstart, maxTouchPoints, readyState, storageAccess, localStorage, canvas,
       innerWidth, innerHeight, touches, pc, isJoystickMode, currentJoystickDirection,
       activeJoystickTouchId, tree, styleSheets, listeners, hidden, active, label,
       thumb, style, storageCalls, uncaught, emitted, sample, beforeToggle,
       held, lastDown, joystickHeld >>

hostVars == << ontouchstart, maxTouchPoints, storageAccess >>
domVars == << tree, styleSheets, listeners >>
joystickVars == << currentJoystickDirection, activeJoystickTouchId, thumb >>
modeVars == << isJoystickMode, localStorage, storageCalls, hidden, label, beforeToggle >>
keyVars == << held, lastDown, joystickHeld >>

\* ------------------------------------------------------- the environment
TouchIds == 1 .. MaxTouches

\* The values the key 'controlMode' may hold when the page is opened.
StoredValues == {Null, "joystick", "dpad", "Joystick"}

\* <<'ontouchstart' in window, navigator.maxTouchPoints>> of the hosts tried:
\* a desktop browser, and two touch devices that pass one test each.
Hosts == {<<FALSE, 0>>, <<TRUE, 0>>, <<FALSE, 1>>}

\* <<storageAccess, stored value>> of the stores tried: a working store with
\* each value, a store that takes no write (empty, or holding a value written
\* before it filled up) and a store the page may not touch.
Stores ==
    ({"available"} \X StoredValues)
    \cup {<<"full", Null>>, <<"full", "joystick">>, <<"denied", Null>>}

\* <<host, document.readyState, store>> of the pages opened: the desktop host
\* with everything, the first touch host with every store once the document
\* is parsed, and the other host and the document still loading with the
\* working empty store.
Pages ==
    { page \in Hosts \X {"loading", "interactive"} \X Stores :
        \/ page[1] = <<FALSE, 0>>
        \/ page[1] = <<FALSE, 1>> /\ page[2] = "interactive"
        \/ page[3] = <<"available", Null>> }

Viewports == {<<390, 844>>, <<844, 390>>}

\* The elements contacts are put on: an action button, a directional button,
\* the joystick and the toggle.
TouchTargets == {"touch-z", "touch-up", "joystick-base", "control-toggle-button"}

\* Contact angles (milliradians) the events of Next carry.
Angles == {0, 1571}

\* Raw contact distances for a base of the given half width: on the deadzone
\* edge and beyond the rim.
Distances(halfWidth) ==
    {Mul(halfWidth, joystickDeadzone), halfWidth + Px}

Points(angles, halfWidth) ==
    {[angle |-> a, distance |-> d] : a \in angles, d \in Distances(halfWidth)}

\* Math.atan2 returns an angle between -pi and pi.
Pi == 3142

\* The angles and distances of the joystick study: a sweep of the circle, the
\* axes, and every threshold of the ladder with its two neighbours; the centre,
\* the deadzone edge with its two neighbours, mid-way and beyond the rim.
SweepAngles ==
    {a \in -Pi .. Pi : a % RightAngle = 0}
    \cup {-Pi, Pi, 1571, -1571}
    \cup {sign * (threshold + near) :
            sign \in {-1, 1}, threshold \in {RightAngle, LeftAngle}, near \in {-1, 0, 1}}

SweepDistances(halfWidth) ==
    { d \in { 0, Mul(halfWidth, joystickDeadzone) - 1, Mul(halfWidth, joystickDeadzone),
              Mul(halfWidth, joystickDeadzone) + 1, Mul(halfWidth, <<6, 10>>),
              halfWidth + Px } : d >= 0 }

\* Math.atan2(0, 0) is 0: the centre has no other angle.
SweepPoints(halfWidth) ==
    { p \in [angle : SweepAngles, distance : SweepDistances(halfWidth)] :
        p.distance = 0 => p.angle = 0 }

JoystickElements == {"joystick-base", "joystick-thumb"}

Unset == [angle |-> 0, distance |-> -1]
Centre == [angle |-> 0, distance |-> 0]

HalfWidth == RectWidth("joystick-base", hidden, style) \div 2

\* ------------------------------------------------------------------ Init
\* The page before the script runs.
Init ==
    /\ \E page \in Pages :
          /\ ontouchstart = page[1][1]
          /\ maxTouchPoints = page[1][2]
          /\ readyState = page[2]
          /\ storageAccess = page[3][1]
          /\ localStorage = page[3][2]
    /\ canvas = FALSE
    /\ \E v \in Viewports : innerWidth = v[1] /\ innerHeight = v[2]
    /\ touches = [id \in TouchIds |-> Null]
    /\ pc = "start"
    /\ isJoystickMode = FALSE
    /\ currentJoystickDirection = Null
    /\ activeJoystickTouchId = NullId
    /\ tree = {}
    /\ styleSheets = 0
    /\ listeners = {}
    /\ hidden = {}
    /\ active = {}
    /\ label = ""
    /\ thumb = Unset
    /\ style = [id \in {} |-> NoStyle]
    /\ storageCalls = {}
    /\ uncaught = FALSE
    /\ emitted = <<>>
    /\ sample = <<>>
    /\ beforeToggle = <<>>
    /\ held = [key \in KeyNames |-> 0]
    /\ lastDown = {}
    /\ joystickHeld = [key \in KeyNames |-> 0]

\* ---------------------------------------------------------------- actions
\* The listeners setupEventListeners() and init() register.
setupEventListeners ==
    { <<"virtual-controls-container", "touchstart">>,
      <<"virtual-controls-container", "touchend">>,
      <<"joystick-base", "touchstart">>,
      <<"joystick-base", "touchmove">>,
      <<"joystick-base", "touchend">>,
      <<"control-toggle-button", "click">> }

\* init(), with the scheme the preference read left in isJoystickMode.
init(mode) ==
    /\ tree' = buildControls(tree)
    /\ styleSheets' = addBaseStyles(styleSheets)
    /\ hidden' = updateControlVisibility_hidden(hidden, mode)
    /\ label' = updateControlVisibility_label(mode)
    /\ style' = calculateAndApplyLayout(innerWidth, innerHeight, tree', style)
    /\ listeners' = (listeners \cup setupEventListeners)
                      \cup {<<"window", "resize">>, <<"window", "orientationchange">>}
    /\ pc' = "ready"

\* The body of the script, lines 16 to 62 and 381 to 385.
LoadScript ==
    /\ pc = "start"
    /\ UNCHANGED << keyVars, hostVars, readyState, localStorage, canvas, innerWidth, innerHeight,
                    touches, active, joystickVars, emitted, sample, beforeToggle >>
    /\ IF ~isTouchDevice(ontouchstart, maxTouchPoints)
         THEN /\ pc' = "gated"
              /\ UNCHANGED << isJoystickMode, storageCalls, uncaught, domVars,
                              hidden, label, style >>
       ELSE IF storageAccess = "denied"
         THEN /\ pc' = "aborted"
              /\ storageCalls' = storageCalls \cup {"getItem"}
              /\ uncaught' = TRUE
              /\ UNCHANGED << isJoystickMode, domVars, hidden, label, style >>
       ELSE /\ isJoystickMode' = load(localStorage)
            /\ storageCalls' = storageCalls \cup {"getItem"}
            /\ UNCHANGED uncaught
            /\ IF readyState = "loading"
                 THEN /\ listeners' = listeners \cup {<<"document", "DOMContentLoaded">>}
                      /\ pc' = "waiting"
                      /\ UNCHANGED << tree, styleSheets, hidden, label, style >>
                 ELSE init(isJoystickMode')

\* The document finishes parsing: the listener of line 382 runs init().
DOMContentLoaded ==
    /\ pc = "waiting"
    /\ <<"document", "DOMContentLoaded">> \in listeners
    /\ readyState = "loading"
    /\ readyState' = "interactive"
    /\ init(isJoystickMode)
    /\ UNCHANGED << keyVars, hostVars, localStorage, canvas, innerWidth, innerHeight, touches,
                    isJoystickMode, active, joystickVars, storageCalls, uncaught,
                    emitted, sample, beforeToggle >>

\* click on the toggle button, lines 353 to 357. setItem may throw; the
\* exception leaves the listener before updateControlVisibility() runs.
ToggleClick ==
    /\ pc = "ready"
    /\ <<"control-toggle-button", "click">> \in listeners
    /\ isJoystickMode' = ~isJoystickMode
    /\ storageCalls' = storageCalls \cup {"setItem"}
    /\ beforeToggle' = << [isJoystickMode |-> isJoystickMode, hidden |-> hidden] >>
    /\ IF storageAccess = "available"
         THEN /\ localStorage' = save(isJoystickMode')
              /\ hidden' = updateControlVisibility_hidden(hidden, isJoystickMode')
              /\ label' = updateControlVisibility_label(isJoystickMode')
              /\ UNCHANGED uncaught
         ELSE /\ uncaught' = TRUE
              /\ UNCHANGED << localStorage, hidden, label >>
    /\ emitted' = <<>>
    /\ sample' = <<>>
    /\ UNCHANGED << keyVars, hostVars, readyState, canvas, innerWidth, innerHeight, touches, pc,
                    domVars, active, style, joystickVars >>

\* e.changedTouches[i].identifier === activeJoystickTouchId
isTracked_Any(id, activeId) == TRUE
isTracked_Other(id, activeId) == id # activeId
isTracked(id, activeId) == id = activeId

\* touchstart of contact id on element el at point p: the listener on the
\* joystick base (lines 323 to 327) when el is inside the base, then the
\* listener on the container (lines 270 to 277).
TouchStart(id, el, p) ==
    /\ pc = "ready"
    /\ touches[id] = Null
    /\ el \in HitTargets \cap tree
    /\ Displayed(el, hidden)
    /\ touches' = [touches EXCEPT ![id] = el]
    /\ LET onBase == el \in JoystickElements /\ <<"joystick-base", "touchstart">> \in listeners
           onContainer == <<"virtual-controls-container", "touchstart">> \in listeners
           move == handleJoystickMove(p, HalfWidth, currentJoystickDirection, canvas)
           button == closest(el)
           pressed == onContainer /\ button # Null /\ IsDiscrete(button)
       IN  /\ IF onBase
                THEN /\ activeJoystickTouchId' = id
                     /\ currentJoystickDirection' = move.direction
                     /\ thumb' = move.thumb
                     /\ sample' = <<p>>
                ELSE /\ sample' = <<>>
                     /\ UNCHANGED joystickVars
           /\ active' = IF pressed THEN active \cup {button} ELSE active
           /\ emitted' = (IF onBase THEN move.events ELSE <<>>)
                           \o (IF pressed
                                 THEN simulateKeyEvent("keydown", Mapping(button), canvas)
                                 ELSE <<>>)
           /\ joystickHeld' = Tally(joystickHeld, IF onBase THEN move.events ELSE <<>>)
    /\ held' = Tally(held, emitted')
    /\ lastDown' = LastDown(lastDown, emitted')
    /\ UNCHANGED << hostVars, readyState, canvas, innerWidth, innerHeight, pc, domVars,
                    style, modeVars, uncaught >>

\* touchmove of a contact that started inside the joystick base, lines 329 to
\* 337: only the tracked contact moves the joystick.
TouchMove(id, p) ==
    /\ pc = "ready"
    /\ touches[id] \in JoystickElements
    /\ <<"joystick-base", "touchmove">> \in listeners
    /\ LET move == handleJoystickMove(p, HalfWidth, currentJoystickDirection, canvas)
       IN  IF isTracked(id, activeJoystickTouchId)
             THEN /\ currentJoystickDirection' = move.direction
                  /\ thumb' = move.thumb
                  /\ sample' = <<p>>
                  /\ emitted' = move.events
                  /\ UNCHANGED activeJoystickTouchId
             ELSE /\ emitted' = <<>>
                  /\ sample' = <<>>
                  /\ UNCHANGED joystickVars
    /\ joystickHeld' = Tally(joystickHeld, emitted')
    /\ held' = Tally(held, emitted')
    /\ lastDown' = LastDown(lastDown, emitted')
    /\ UNCHANGED << hostVars, readyState, canvas, innerWidth, innerHeight, touches, pc,
                    domVars, active, style, modeVars, uncaught >>

\* touchend of contact id: the listener on the joystick base (lines 339 to
\* 350) when the contact started inside the base, then the listener on the
\* container (lines 279 to 287).
TouchEnd(id) ==
    /\ pc = "ready"
    /\ touches[id] # Null
    /\ touches' = [touches EXCEPT ![id] = Null]
    /\ LET el == touches[id]
           onBase == el \in JoystickElements /\ <<"joystick-base", "touchend">> \in listeners
           tracked == onBase /\ isTracked(id, activeJoystickTouchId)
           onContainer == <<"virtual-controls-container", "touchend">> \in listeners
           button == closest(el)
           released == onContainer /\ button # Null /\ IsDiscrete(button)
       IN  /\ IF tracked
                THEN /\ currentJoystickDirection' = Null
                     /\ thumb' = Centre
                     /\ activeJoystickTouchId' = NullId
                ELSE UNCHANGED joystickVars
           /\ active' = IF onContainer THEN deactivateAll(active) ELSE active
           /\ emitted' = (IF tracked
                            THEN simulateKeyEvent("keyup",
                                     Mapping(touchId(currentJoystickDirection)), canvas)
                            ELSE <<>>)
                           \o (IF released
                                 THEN simulateKeyEvent("keyup", Mapping(button), canvas)
                                 ELSE <<>>)
           /\ joystickHeld' =
                 Tally(joystickHeld,
                       IF tracked
                         THEN simulateKeyEvent("keyup",
                                  Mapping(touchId(currentJoystickDirection)), canvas)
                         ELSE <<>>)
    /\ held' = Tally(held, emitted')
    /\ lastDown' = LastDown(lastDown, emitted')
    /\ sample' = <<>>
    /\ UNCHANGED << hostVars, readyState, canvas, innerWidth, innerHeight, pc, domVars,
                    style, modeVars, uncaught >>

\* The layout listener of lines 377 and 378, after the viewport became w x h.
Relayout(type, w, h) ==
    /\ pc = "ready"
    /\ <<"window", type>> \in listeners
    /\ innerWidth' = w
    /\ innerHeight' = h
    /\ style' = calculateAndApplyLayout(w, h, tree, style)
    /\ emitted' = <<>>
    /\ sample' = <<>>
    /\ UNCHANGED << keyVars, hostVars, readyState, canvas, touches, pc, domVars, active,
                    modeVars, joystickVars, uncaught >>

\* resize: the viewport takes any size.
Resize(w, h) == Relayout("resize", w, h)

\* orientationchange: the device is turned, width and height swap.
OrientationChange == Relayout("orientationchange", innerHeight, innerWidth)

\* The game creates its canvas.
CanvasAppears ==
    /\ ~canvas
    /\ canvas' = TRUE
    /\ emitted' = <<>>
    /\ sample' = <<>>
    /\ UNCHANGED << keyVars, hostVars, readyState, innerWidth, innerHeight, touches, pc, domVars,
                    active, style, hidden, label, isJoystickMode, localStorage,
                    storageCalls, beforeToggle, joystickVars, uncaught >>

Next ==
    \/ LoadScript
    \/ DOMContentLoaded
    \/ ToggleClick
    \/ \E id \in TouchIds, el \in TouchTargets \ JoystickElements : TouchStart(id, el, Centre)
    \/ \E id \in TouchIds, el \in TouchTargets \cap JoystickElements,
          p \in Points(Angles, HalfWidth) :
          TouchStart(id, el, p)
    \/ \E id \in TouchIds, p \in Points(Angles, HalfWidth) : TouchMove(id, p)
    \/ \E id \in TouchIds : TouchEnd(id)
    \/ \E v \in Viewports : Resize(v[1], v[2])
    \/ OrientationChange
    \/ CanvasAppears

Spec == Init /\ [][Next]_vars

\* The joystick study: a touch device in joystick mode, one contact that
\* starts on the base or the thumb, moves over the sweep and ends, and the
\* toggle that hides the joystick under the contact.
JoystickInit ==
    /\ Init
    /\ ontouchstart = FALSE /\ maxTouchPoints = 1
    /\ readyState = "interactive"
    /\ storageAccess = "available" /\ localStorage = "joystick"

JoystickNext ==
    \/ LoadScript
    \/ ToggleClick
    \/ \E el \in JoystickElements, p \in SweepPoints(HalfWidth) : TouchStart(1, el, p)
    \/ \E p \in SweepPoints(HalfWidth) : TouchMove(1, p)
    \/ TouchEnd(1)

JoystickSpec == JoystickInit /\ [][JoystickNext]_vars

\* The layout study: a touch device whose viewport takes every width and
\* height of Sides, the square, the near-square and the extreme ones included.
Sides == {1, 320, 390, 400, 442, 443, 844}

LayoutViewports == Sides \X Sides

LayoutInit ==
    /\ Init
    /\ ontouchstart = FALSE /\ maxTouchPoints = 1
    /\ readyState = "interactive"
    /\ storageAccess = "available"

LayoutNext ==
    \/ LoadScript
    \/ \E v \in LayoutViewports : Resize(v[1], v[2])
    \/ OrientationChange

LayoutSpec == LayoutInit /\ [][LayoutNext]_vars

RECURSIVE Within(_, _)
\* el is root or a descendant of root.
Within(el, root) ==
    IF el = root THEN TRUE
    ELSE IF el \notin Elements THEN FALSE
    ELSE Within(Parent(el), root)

\* The elements taken out of the document that still had their parent in it.
Removed == {el \in Elements \ tree : Parent(el) \notin Elements \ tree}

\* Another script of the page removes el, and its descendants with it, from
\* the document: document.getElementById no longer finds them.
RemoveElement(el) ==
    /\ pc = "ready"
    /\ el \in tree
    /\ Cardinality(Removed) < MaxRemoved
    /\ tree' = {other \in tree : ~Within(other, el)}
    /\ emitted' = <<>>
    /\ sample' = <<>>
    /\ UNCHANGED << keyVars, hostVars, readyState, canvas, innerWidth, innerHeight, touches, pc,
                    styleSheets, listeners, active, style, modeVars, joystickVars,
                    uncaught >>

\* The missing-element study: a touch device, elements taken out of the
\* overlay after initialization, and layout passes over what is left.
DetachViewports == {<<390, 844>>, <<844, 390>>, <<443, 442>>}

DetachInit ==
    /\ Init
    /\ ontouchstart = FALSE /\ maxTouchPoints = 1
    /\ readyState = "interactive"
    /\ storageAccess = "available" /\ localStorage = Null

DetachNext ==
    \/ LoadScript
    \/ \E el \in Elements : RemoveElement(el)
    \/ \E v \in DetachViewports : Resize(v[1], v[2])

DetachSpec == DetachInit /\ [][DetachNext]_vars

\* ================================================================== claims
IsReady == pc = "ready"
Visible(el) == el \in tree /\ Displayed(el, hidden)
NoContact == \A id \in TouchIds : touches[id] = Null
Toggled == "setItem" \in storageCalls

\* C1: on a host without touch support ('ontouchstart' not in window and
\* maxTouchPoints not positive) the script builds no element, injects no style,
\* attaches no listener and makes no call to the preference store: nothing of
\* the page ever changes.
C1_NoTouchNoEffect ==
    (~ontouchstart /\ ~(maxTouchPoints > 0)) =>
        /\ tree = {}
        /\ styleSheets = 0
        /\ listeners = {}
        /\ storageCalls = {}
        /\ hidden = {} /\ active = {} /\ label = "" /\ thumb = Unset
        /\ DOMAIN style = {}
        /\ emitted = <<>>
        /\ ~uncaught

C1_Witness ==
    /\ ~ontouchstart /\ maxTouchPoints = 0
    /\ pc = "gated"
    /\ localStorage = "joystick"

\* C2: in every state after initialization both movement clusters are in the
\* tree, exactly one of them is visible, and the visible one is the cluster of
\* the active scheme.
C2_ExactlyOneClusterVisible ==
    IsReady =>
        /\ {"dpad-container", "joystick-container"} \subseteq tree
        /\ Visible("dpad-container") # Visible("joystick-container")
        /\ Visible("joystick-container") = isJoystickMode

\* C3: a toggle flips the active scheme, leaves exactly one movement cluster
\* visible and the stored preference equal to the new scheme; the toggle after
\* a toggle restores the scheme and the visibility the first one found.
C3_ToggleLaw ==
    [][ ToggleClick =>
          /\ isJoystickMode' = ~isJoystickMode
          /\ (("dpad-container" \in tree' /\ Displayed("dpad-container", hidden'))
                # ("joystick-container" \in tree' /\ Displayed("joystick-container", hidden')))
          /\ localStorage' = (IF isJoystickMode' THEN "joystick" ELSE "dpad")
          /\ (beforeToggle # <<>> =>
                /\ isJoystickMode' = beforeToggle[1].isJoystickMode
                /\ hidden' = beforeToggle[1].hidden) ]_vars

\* C4: the active scheme changes only on a toggle (after the script read it),
\* and from the first toggle on the stored preference is one of the two scheme
\* identifiers and names the active scheme, so that a fresh load() of it
\* returns the active scheme.
C4_PreferenceFollowsToggle ==
    [][ /\ (IsReady /\ isJoystickMode' # isJoystickMode) => ToggleClick
        /\ ("setItem" \in storageCalls') =>
              /\ localStorage' \in {"joystick", "dpad"}
              /\ (localStorage' = "joystick") = isJoystickMode' ]_vars

\* C5: the scheme read at startup is Joystick only when the stored value is
\* exactly 'joystick'; a missing value, 'dpad' and any other string give
\* DirectionalPad.
C5_LoadDefaultsToDpad ==
    (pc \in {"waiting", "ready"} /\ ~Toggled) =>
        /\ "getItem" \in storageCalls
        /\ localStorage = "joystick" => isJoystickMode
        /\ localStorage \in {Null, "dpad", "Joystick"} => ~isJoystickMode
        /\ localStorage # "joystick" => ~isJoystickMode

C5_Witness ==
    /\ IsReady /\ ~Toggled
    /\ localStorage = "Joystick"
    /\ ~isJoystickMode

\* C6: with a preference store that cannot be read or written, no exception
\* escapes the script, startup still builds the overlay (with the default
\* scheme when nothing could be read), and every toggle flips the scheme with
\* cluster visibility and toggle label following it.
C6_StorageFailureTolerated ==
    /\ ~uncaught
    /\ (storageAccess = "denied" /\ pc \notin {"start", "gated"}) =>
          /\ pc \in {"waiting", "ready"}
          /\ (IsReady /\ ~Toggled) => ~isJoystickMode
    /\ (storageAccess # "available" /\ IsReady) =>
          /\ Elements \subseteq tree
          /\ Visible("joystick-container") = isJoystickMode
          /\ Visible("dpad-container") = ~isJoystickMode
          /\ label = (IF isJoystickMode THEN "Use D-Pad" ELSE "Use Joystick")

\* C7: with an empty preference store, the step that completes initialization
\* leaves DirectionalPad active, the directional pad visible, the joystick
\* hidden and the toggle labelled "Use Joystick".
C7_EmptyStoreStartsWithDpad ==
    [][ (pc # "ready" /\ pc' = "ready" /\ localStorage = Null) =>
          /\ ~isJoystickMode'
          /\ "dpad-container" \in tree' /\ Displayed("dpad-container", hidden')
          /\ "joystick-container" \in tree' /\ ~Displayed("joystick-container", hidden')
          /\ label' = "Use Joystick" ]_vars

C7_Witness ==
    /\ IsReady /\ localStorage = Null /\ storageCalls = {"getItem"}
    /\ NoContact /\ thumb = Unset /\ emitted = <<>>
    /\ ~isJoystickMode
    /\ Visible("dpad-container") /\ ~Visible("joystick-container")
    /\ label = "Use Joystick"

\* The key of a joystick direction, none for no direction.
ArrowKey(direction) ==
    CASE direction = "left" -> "ArrowLeft"
      [] direction = "right" -> "ArrowRight"
      [] direction = "up" -> "ArrowUp"
      [] direction = "down" -> "ArrowDown"
      [] OTHER -> Null

KeyEvents(type, direction) ==
    IF ArrowKey(direction) = Null THEN <<>> ELSE << <<type, ArrowKey(direction)>> >>

\* The magnitude handleJoystickMove works with: the raw distance, clamped to
\* the radius of the base.
Clamped(p) == Min(HalfWidth, p.distance)

\* C8: on every joystick sample (contact-start included) the tracked direction
\* becomes the resolved one; when it differs from the previous one the events
\* emitted are the key-up of the previous direction's key (if any) followed by
\* the key-down of the new direction's key (if any) and nothing else; when it
\* is the same, no key event is emitted.
C8_DirectionChangeLaw ==
    [][ sample' # <<>> =>
          LET previous == currentJoystickDirection
              resolved == resolveDirection(sample'[1].angle,
                                           Min(HalfWidth, sample'[1].distance), HalfWidth)
              keys == [i \in DOMAIN emitted' |-> <<emitted'[i].type, emitted'[i].key>>]
          IN  /\ currentJoystickDirection' = resolved
              /\ resolved # previous =>
                    keys = KeyEvents("keyup", previous) \o KeyEvents("keydown", resolved)
              /\ resolved = previous => emitted' = <<>> ]_vars

C8_Witness ==
    /\ sample # <<>>
    /\ Len(emitted) = 2
    /\ emitted[1].type = "keyup" /\ emitted[1].key = "ArrowRight"
    /\ emitted[2].type = "keydown" /\ emitted[2].key = "ArrowUp"
    /\ currentJoystickDirection = "up"

\* C9: a joystick sample whose clamped magnitude is radius x 0.20 or less
\* resolves to no direction, whatever the angle.
C9_DeadzoneIsNone ==
    (sample # <<>> /\ 5 * Clamped(sample[1]) <= HalfWidth) =>
        currentJoystickDirection = Null

C9_Witness ==
    /\ sample # <<>>
    /\ HalfWidth > 0
    /\ 5 * sample[1].distance = HalfWidth
    /\ sample[1].angle = 1571
    /\ currentJoystickDirection = Null

\* C10: a joystick sample whose clamped magnitude is above radius x 0.20
\* resolves to one of left, right, up, down, and to the same one for every
\* other magnitude above the deadzone at that angle.
C10_AboveDeadzoneHasDirection ==
    (sample # <<>> /\ 5 * Clamped(sample[1]) > HalfWidth) =>
        /\ currentJoystickDirection \in {"left", "right", "up", "down"}
        /\ \A d \in SweepDistances(HalfWidth) :
              5 * Min(HalfWidth, d) > HalfWidth =>
                resolveDirection(sample[1].angle, Min(HalfWidth, d), HalfWidth)
                  = currentJoystickDirection

\* C11: above the deadzone the direction follows the ladder taken in order:
\* |angle| > 2.356 gives left; else |angle| < 0.785 gives right; else
\* angle < -0.785 gives up; else angle > 0.785 gives down. So angle 0 is right,
\* pi/2 is down, -pi/2 is up, pi and -pi are left.
C11_LadderInOrder ==
    (sample # <<>> /\ 5 * Clamped(sample[1]) > HalfWidth) =>
        LET angle == sample[1].angle
            notLeft == ~(Abs(angle) > 2356)
            notRight == ~(Abs(angle) < 785)
            notUp == ~(angle < -785)
        IN  /\ Abs(angle) > 2356 => currentJoystickDirection = "left"
            /\ (notLeft /\ Abs(angle) < 785) => currentJoystickDirection = "right"
            /\ (notLeft /\ notRight /\ angle < -785) => currentJoystickDirection = "up"
            /\ (notLeft /\ notRight /\ notUp /\ angle > 785) =>
                  currentJoystickDirection = "down"
            /\ angle = 0 => currentJoystickDirection = "right"
            /\ angle = 1571 => currentJoystickDirection = "down"
            /\ angle = -1571 => currentJoystickDirection = "up"
            /\ angle \in {3142, -3142} => currentJoystickDirection = "left"

C11_Witness ==
    /\ sample # <<>>
    /\ 5 * Clamped(sample[1]) > HalfWidth
    /\ sample[1].angle = -1571
    /\ currentJoystickDirection = "up"
    /\ Len(emitted) = 2 /\ emitted[2].key = "ArrowUp"

\* C12: a joystick sample above the deadzone whose angle is exactly 0.785 rad
\* resolves to down.
C12_BoundaryIsDown ==
    (sample # <<>> /\ 5 * Clamped(sample[1]) > HalfWidth /\ sample[1].angle = 785) =>
        currentJoystickDirection = "down"

\* The key events of a step, as <<type, key>> pairs in order.
Keys(events) == [i \in DOMAIN events |-> <<events[i].type, events[i].key>>]

\* C13: when the tracked joystick contact ends, the key-up of the current
\* direction's key is emitted if a direction is active and nothing is emitted
\* otherwise; afterwards the tracked direction is none, the thumb is at the
\* centre and no contact is tracked.
C13_TrackedContactEnd ==
    [][ \A id \in TouchIds :
          (/\ touches[id] \in JoystickElements
           /\ touches'[id] = Null
           /\ id = activeJoystickTouchId) =>
              /\ Keys(emitted') = KeyEvents("keyup", currentJoystickDirection)
              /\ currentJoystickDirection' = Null
              /\ thumb' = [angle |-> 0, distance |-> 0]
              /\ activeJoystickTouchId' = NullId ]_vars

C13_Witness ==
    /\ NoContact
    /\ Keys(emitted) = << <<"keyup", "ArrowDown">> >>
    /\ currentJoystickDirection = Null
    /\ thumb = [angle |-> 0, distance |-> 0]
    /\ activeJoystickTouchId = NullId

\* The action, system and directional-pad buttons.
DiscreteControls == ActionButtons \cup SystemButtons \cup DpadButtons

\* C14: the start of a contact on a discrete control emits exactly the
\* key-down of the control's key and marks the control active; the end of that
\* contact emits exactly the key-up of the same key; a step that neither starts
\* nor ends a contact and gives the joystick no sample emits no key event.
C14_OnePairPerPress ==
    [][ /\ \A id \in TouchIds :
              /\ (touches[id] = Null /\ touches'[id] \in DiscreteControls) =>
                    /\ Keys(emitted') = << <<"keydown", KEY_MAPPINGS[touches'[id]].key>> >>
                    /\ touches'[id] \in active'
              /\ (touches[id] \in DiscreteControls /\ touches'[id] = Null) =>
                    Keys(emitted') = << <<"keyup", KEY_MAPPINGS[touches[id]].key>> >>
        /\ (touches' = touches /\ sample' = <<>>) => emitted' = <<>> ]_vars

C14_Witness ==
    /\ NoContact
    /\ Keys(emitted) = << <<"keyup", "z">> >>
    /\ emitted[1].keyCode = 90
    /\ active = {}

\* C15: after the end of any contact inside the overlay, whatever it started
\* on, no discrete control is visually active, the controls another contact
\* still presses included.
C15_ContactEndClearsActive ==
    [][ (\E id \in TouchIds : touches[id] # Null /\ touches'[id] = Null) =>
          active' \cap DiscreteControls = {} ]_vars

C15_Witness ==
    /\ \E id \in TouchIds : touches[id] = "touch-up"
    /\ \E id \in TouchIds : touches[id] = Null
    /\ Keys(emitted) = << <<"keyup", "z">> >>
    /\ active = {}

\* The box of a control as the last layout pass placed it.
Placed(id) == BoxOf(id, style, innerWidth, innerHeight)

Inside(box, outer) ==
    /\ outer.left <= box.left /\ box.left <= box.right /\ box.right <= outer.right
    /\ outer.top <= box.top /\ box.top <= box.bottom /\ box.bottom <= outer.bottom

\* Two boxes share no interior point.
Disjoint(a, b) ==
    \/ a.right <= b.left \/ b.right <= a.left
    \/ a.bottom <= b.top \/ b.bottom <= a.top

\* C16: after a layout pass with the shipped CONFIG the bounding box of the
\* action cluster, of each of its six buttons, of the system button, of both
\* movement clusters and of the mode toggle lies inside the viewport
\* [0, W] x [0, H], for every viewport.
C16_ControlsInsideViewport ==
    IsReady =>
        \A id \in {"action-cluster", "touch-esc", "dpad-container", "joystick-container",
                   "control-toggle-button"} \cup ActionButtons :
            Inside(Placed(id), [left |-> 0, top |-> 0,
                                right |-> innerWidth * Px, bottom |-> innerHeight * Px])

C16_Witness ==
    /\ IsReady
    /\ innerWidth = 400 /\ innerHeight = 390
    /\ Placed("control-toggle-button").top = 117 * Px
    /\ Placed("touch-q").left = (400 * Px) - 21918000

\* C17: after a layout pass the action cluster, the system button, the
\* movement cluster and the mode toggle have pairwise disjoint bounding boxes,
\* for every viewport, the near-square landscape ones included.
C17_RegionsDisjoint ==
    IsReady =>
        \A a, b \in {"action-cluster", "touch-esc", "dpad-container", "joystick-container",
                     "control-toggle-button"} :
            (a # b /\ {a, b} # {"dpad-container", "joystick-container"}) =>
                Disjoint(Placed(a), Placed(b))

\* C18: a layout pass that finds the viewport of the pass before it leaves the
\* applied geometry of every element as it was, property by property.
C18_LayoutIdempotent ==
    [][ (IsReady /\ innerWidth' = innerWidth /\ innerHeight' = innerHeight) =>
          style' = style ]_vars

C18_Witness ==
    /\ IsReady
    /\ innerWidth = 443 /\ innerHeight = 442
    /\ DOMAIN style = Styled
    /\ style = calculateAndApplyLayout(innerWidth, innerHeight, tree, style)
    /\ style["dpad-container"].width = 23514400

\* The scale-dependent dimensions of the landscape styles are 1.4 times those
\* of the portrait styles; the padding and the gap are the same.
OrientationLaw(portrait, landscape) ==
    /\ \A id \in ActionButtons \cup DpadButtons
                 \cup {"touch-esc", "dpad-container", "joystick-container", "joystick-base",
                       "joystick-thumb", "control-toggle-button"} :
          /\ landscape[id].width * 10 = portrait[id].width * 14
          /\ landscape[id].height * 10 = portrait[id].height * 14
    /\ \A id \in ActionButtons \cup {"touch-esc", "control-toggle-button"} :
          landscape[id].fontSize * 10 = portrait[id].fontSize * 14
    /\ \A id \in {"action-cluster", "touch-esc"} :
          landscape[id].right = portrait[id].right
    /\ \A id \in {"action-cluster", "dpad-container", "joystick-container"} :
          landscape[id].bottom = portrait[id].bottom
    /\ \A id \in {"dpad-container", "joystick-container"} :
          landscape[id].left = portrait[id].left
    /\ landscape["touch-esc"].top = portrait["touch-esc"].top
    /\ landscape["touch-z"].left - landscape["touch-z"].width
          = portrait["touch-z"].left - portrait["touch-z"].width

\* C19: when the viewport turns between portrait and landscape with the same
\* short side, every scale-dependent dimension of the landscape layout is
\* exactly 1.4 times the portrait one, and padding and gap are equal.
C19_LandscapeScalesBy14 ==
    [][ (/\ IsReady
         /\ innerWidth' = innerHeight /\ innerHeight' = innerWidth
         /\ innerWidth # innerHeight) =>
            IF innerWidth < innerHeight
              THEN OrientationLaw(style, style')
              ELSE OrientationLaw(style', style) ]_vars

C19_Witness ==
    /\ IsReady
    /\ innerWidth = 443 /\ innerHeight = 320
    /\ style["touch-esc"].width = 4480000
    /\ style["touch-esc"].top = 1280000
    /\ style["touch-up"].width = 5320000

\* C20: the side of an action button is shortSide x 0.11 x scale: 42.9 px on
\* the 390 x 844 viewport and 60.06 px on the 844 x 390 viewport.
C20_ActionButtonSize ==
    IsReady =>
        \A id \in ActionButtons :
            LET shortSide == IF innerWidth < innerHeight THEN innerWidth ELSE innerHeight
                scale == IF innerWidth > innerHeight THEN 14 ELSE 10
            IN  /\ style[id].width = shortSide * 11 * scale * (Px \div 1000)
                /\ style[id].height = style[id].width
                /\ (innerWidth = 390 /\ innerHeight = 844) => style[id].width = 4290000
                /\ (innerWidth = 844 /\ innerHeight = 390) => style[id].width = 6006000

C20_Witness ==
    /\ IsReady
    /\ innerWidth = 844 /\ innerHeight = 390
    /\ style["touch-q"].width = 6006000
    /\ style["touch-v"].height = 6006000

\* The tracked joystick contact ends in this step.
TrackedEnds ==
    \E id \in TouchIds :
        /\ touches[id] \in JoystickElements
        /\ touches'[id] = Null
        /\ id = activeJoystickTouchId

\* C21: a key emission for an id the key table does not hold, the direction
\* none included, dispatches nothing and raises no error: every event that is
\* dispatched carries an entry of the table; a sample that leaves no direction
\* emits no key-up, one that resolves to none emits no key-down, and the end of
\* a tracked contact without a direction emits nothing.
C21_UnmappedIsNoOp ==
    [][ /\ \A i \in DOMAIN emitted' :
              \E id \in DOMAIN KEY_MAPPINGS :
                  /\ emitted'[i].key = KEY_MAPPINGS[id].key
                  /\ emitted'[i].code = KEY_MAPPINGS[id].code
                  /\ emitted'[i].keyCode = KEY_MAPPINGS[id].keyCode
        /\ (sample' # <<>> /\ currentJoystickDirection = Null) =>
              /\ \A i \in DOMAIN emitted' : emitted'[i].type = "keydown"
              /\ Len(emitted') = (IF currentJoystickDirection' = Null THEN 0 ELSE 1)
        /\ (sample' # <<>> /\ currentJoystickDirection' = Null) =>
              /\ \A i \in DOMAIN emitted' : emitted'[i].type = "keyup"
              /\ Len(emitted') = (IF currentJoystickDirection = Null THEN 0 ELSE 1)
        /\ (TrackedEnds /\ currentJoystickDirection = Null) => emitted' = <<>>
        /\ (sample' # <<>> \/ TrackedEnds) => uncaught' = uncaught ]_vars

C21_Witness ==
    /\ IsReady /\ NoContact
    /\ thumb = [angle |-> 0, distance |-> 0]
    /\ activeJoystickTouchId = NullId
    /\ currentJoystickDirection = Null
    /\ emitted = <<>>
    /\ ~uncaught

\* C22: every key event goes to the canvas when one exists at the moment of
\* the emission and to the document otherwise, and its target is focused
\* before the dispatch.
C22_TargetFocused ==
    \A i \in DOMAIN emitted :
        /\ emitted[i].target = (IF canvas THEN "canvas" ELSE "document")
        /\ emitted[i].focused

\* C22, amended: every key event goes to the canvas when one exists at the
\* moment of the emission and to the document otherwise; the canvas is focused
\* before the dispatch, the document, which has no focus method, is not.
C22_TargetResolvedAfresh ==
    \A i \in DOMAIN emitted :
        /\ emitted[i].target = (IF canvas THEN "canvas" ELSE "document")
        /\ emitted[i].focused = (emitted[i].target = "canvas")

C22_Witness ==
    /\ IsReady /\ canvas
    /\ Len(emitted) = 1
    /\ emitted[1].type = "keyup"
    /\ emitted[1].target = "canvas" /\ emitted[1].focused

\* C23: while the contact the joystick tracks has not ended, the tracked
\* identifier stays that contact's: the start of another contact on the base
\* does not replace it.
C23_TrackedIdentifierStable ==
    [][ (/\ activeJoystickTouchId # NullId
         /\ touches'[activeJoystickTouchId] # Null) =>
            activeJoystickTouchId' = activeJoystickTouchId ]_vars

\* A contact starts on the joystick base or its thumb in this step.
BaseStart ==
    \E id \in TouchIds : touches[id] = Null /\ touches'[id] \in JoystickElements

\* C24: a step that is not a contact-start on the joystick base, nor a move
\* or the end of the tracked contact, leaves the tracked identifier, the
\* tracked direction and the thumb offset unchanged, gives the joystick no
\* sample, and emits no key event but the one of a discrete button pressed or
\* released in that step.
C24_JoystickFrame ==
    [][ ~(\/ BaseStart
          \/ TrackedEnds
          \/ (activeJoystickTouchId # NullId /\ sample' # <<>>)) =>
            /\ UNCHANGED << activeJoystickTouchId, currentJoystickDirection, thumb >>
            /\ sample' = <<>>
            /\ \A i \in DOMAIN emitted' :
                  \E id \in TouchIds :
                      \/ /\ touches[id] = Null /\ touches'[id] \in DiscreteControls
                         /\ emitted'[i].type = "keydown"
                         /\ emitted'[i].key = KEY_MAPPINGS[touches'[id]].key
                      \/ /\ touches[id] \in DiscreteControls /\ touches'[id] = Null
                         /\ emitted'[i].type = "keyup"
                         /\ emitted'[i].key = KEY_MAPPINGS[touches[id]].key ]_vars

C24_Witness ==
    /\ IsReady
    /\ activeJoystickTouchId = NullId
    /\ \E id \in TouchIds : touches[id] \in JoystickElements
    /\ currentJoystickDirection = Null
    /\ thumb = [angle |-> 0, distance |-> 0]
    /\ sample = <<>>
    /\ ~isJoystickMode

\* C25: the end of a contact emits, from the button logic, the key-up of the
\* control it started on when that is a discrete control and nothing
\* otherwise: the end of a contact on the joystick or the toggle adds no
\* key-up to the one of the joystick logic, and no key of a control another
\* contact still holds is released.
C25_KeyUpOnlyForTarget ==
    [][ \A id \in TouchIds :
          (touches[id] # Null /\ touches'[id] = Null) =>
              Keys(emitted') =
                  (IF TrackedEnds THEN KeyEvents("keyup", currentJoystickDirection) ELSE <<>>)
                  \o (IF touches[id] \in DiscreteControls
                        THEN << <<"keyup", KEY_MAPPINGS[touches[id]].key>> >>
                        ELSE <<>>) ]_vars

C25_Witness ==
    /\ IsReady
    /\ \E id \in TouchIds : touches[id] = "touch-z"
    /\ \E id \in TouchIds : touches[id] = Null
    /\ \A id \in TouchIds : touches[id] \in {"touch-z", Null}
    /\ active = {}
    /\ emitted = <<>>
    /\ label = "Use D-Pad"

\* C26: a mode toggle runs no layout pass and leaves the applied geometry of
\* every element as it was, and after initialization both movement clusters
\* carry the same geometry and so the same box, whichever is visible.
C26_ToggleKeepsGeometry ==
    [][ /\ (IsReady /\ isJoystickMode' # isJoystickMode) => style' = style
        /\ pc' = "ready" =>
              /\ {"dpad-container", "joystick-container"} \subseteq DOMAIN style'
              /\ style'["dpad-container"] = style'["joystick-container"]
              /\ BoxOf("dpad-container", style', innerWidth', innerHeight')
                    = BoxOf("joystick-container", style', innerWidth', innerHeight') ]_vars

C26_Witness ==
    /\ IsReady
    /\ beforeToggle # <<>>
    /\ isJoystickMode /\ ~beforeToggle[1].isJoystickMode
    /\ innerWidth = 844 /\ innerHeight = 390
    /\ style["joystick-container"].width = 20748000
    /\ style["dpad-container"].width = 20748000

\* C27: after initialization and after any sequence of resize and orientation
\* changes, the applied geometry is the one a single layout pass over unstyled
\* elements computes from the current viewport: every geometry change ran a
\* full pass and nothing of an earlier pass is left.
C27_GeometryFromViewportAlone ==
    IsReady =>
        style = calculateAndApplyLayout(innerWidth, innerHeight, Elements,
                                        [id \in {} |-> NoStyle])

C27_Witness ==
    /\ IsReady
    /\ innerWidth = 1 /\ innerHeight = 844
    /\ style["touch-esc"].width = 10000
    /\ style["action-cluster"].bottom = 4000

\* C28: in every state after initialization the toggle's label names the
\* scheme that is not active: "Use D-Pad" exactly when Joystick is active,
\* "Use Joystick" exactly when DirectionalPad is.
C28_LabelNamesOtherScheme ==
    IsReady =>
        /\ (label = "Use D-Pad") = isJoystickMode
        /\ (label = "Use Joystick") = ~isJoystickMode

\* C29: on every joystick sample the thumb is displaced along the angle of
\* the contact by the raw distance when that is within the radius of the base
\* and by the radius otherwise, never by more than the radius, inside the
\* deadzone as well as outside it.
C29_ThumbFollowsClampedVector ==
    sample # <<>> =>
        /\ thumb.angle = sample[1].angle
        /\ thumb.distance =
              (IF sample[1].distance <= HalfWidth THEN sample[1].distance ELSE HalfWidth)
        /\ thumb.distance <= HalfWidth
        /\ thumb.distance >= 0

C29_Witness ==
    /\ sample # <<>>
    /\ currentJoystickDirection = Null
    /\ sample[1].angle = -1571
    /\ sample[1].distance > 0
    /\ thumb = [angle |-> -1571, distance |-> sample[1].distance]

\* C30: a layout pass over a tree that lacks an element raises no error,
\* leaves the style of the missing element as it was, and gives every element
\* that is present exactly the geometry a pass over the complete tree gives
\* it.
C30_MissingElementSkipped ==
    [][ (IsReady /\ (innerWidth' # innerWidth \/ innerHeight' # innerHeight)) =>
          LET complete == calculateAndApplyLayout(innerWidth', innerHeight', Elements,
                                                  [id \in {} |-> NoStyle])
          IN  /\ uncaught' = uncaught
              /\ DOMAIN style' = DOMAIN style
              /\ \A id \in DOMAIN style' :
                    style'[id] = (IF id \in tree' THEN complete[id] ELSE style[id]) ]_vars

C30_Witness ==
    /\ IsReady /\ ~uncaught
    /\ "touch-esc" \notin tree
    /\ innerWidth = 443 /\ innerHeight = 442
    /\ style["touch-esc"].width = 3900000
    /\ style["touch-q"].width = 6806800
    /\ style["control-toggle-button"].width = 13613600

\* C31: in every reachable state, when no joystick contact is tracked the
\* tracked direction is none: a direction is active only while a contact is
\* tracked.
C31_DirectionOnlyWhileTracked ==
    activeJoystickTouchId = NullId => currentJoystickDirection = Null

\* The tracked contact has just ended with a direction active, releasing its
\* key, while another contact stays on the joystick untracked.
C31_Witness ==
    /\ activeJoystickTouchId = NullId
    /\ currentJoystickDirection = Null
    /\ \E id \in TouchIds : touches[id] \in JoystickElements
    /\ Keys(emitted) = << <<"keyup", "ArrowRight">> >>

\* The keys a joystick with the given tracked direction holds down.
HeldBy(direction) ==
    [key \in KeyNames |-> IF key = ArrowKey(direction) THEN 1 ELSE 0]

\* At most one key is down, and none is released more often than pressed.
AtMostOne(count) ==
    /\ \A key \in KeyNames : count[key] \in {0, 1}
    /\ Cardinality({key \in KeyNames : count[key] = 1}) <= 1

\* C32: before and after every step the keys the joystick logic holds down
\* (a key-down of its own not yet followed by a key-up of its own) are exactly
\* the key of the tracked direction, and no key when the direction is none;
\* after every single event the joystick emits within a step it holds at most
\* one direction key down.
C32_JoystickHoldsTrackedKey ==
    [][ /\ joystickHeld = HeldBy(currentJoystickDirection)
        /\ joystickHeld' = HeldBy(currentJoystickDirection')
        /\ (sample' # <<>> \/ TrackedEnds) =>
              \A n \in 0..Len(emitted') :
                  AtMostOne(Tally(joystickHeld, SubSeq(emitted', 1, n))) ]_vars

\* A second contact on the base has turned the joystick from right to down
\* while the first one is still on it: one key is released, the other pressed.
C32_Witness ==
    /\ \A id \in TouchIds : touches[id] \in JoystickElements
    /\ Keys(emitted) = << <<"keyup", "ArrowRight">>, <<"keydown", "ArrowDown">> >>
    /\ joystickHeld = HeldBy("down")
    /\ currentJoystickDirection = "down"

\* C33: after every single event of every step, no key has seen more key-ups
\* than key-downs; and once every contact has ended through its contact-end
\* event no key is down: no key has a key-down as its last event and every
\* key has seen as many key-ups as key-downs.
C33_NoKeyLeftDown ==
    [][ /\ \A n \in 0..Len(emitted') : \A key \in KeyNames :
              Tally(held, SubSeq(emitted', 1, n))[key] >= 0
        /\ NoContact' => /\ lastDown' = {}
                         /\ \A key \in KeyNames : held'[key] = 0 ]_vars

\* The last contact has just left a D-pad button that a mode toggle hid while
\* it was pressed: its key-up is the last event and nothing is down.
C33_Witness ==
    /\ IsReady
    /\ NoContact
    /\ Toggled
    /\ isJoystickMode
    /\ Keys(emitted) = << <<"keyup", "ArrowUp">> >>
    /\ lastDown = {}
====
